---- MODULE Spec2Model ----
(***************************************************************************)
(* Model of the wpilib driver wrappers of first-rust-competition:          *)
(*   wpilib/src/servo.rs  - Servo over a PWM channel                       *)
(*   wpilib/src/spi.rs    - Spi bus handle and the AutoSpi transfer engine *)
(*                                                                         *)
(* f64 values are modelled as exact rationals in lowest terms (records     *)
(* [n, d] with d > 0), so the angle <-> position conversions are real      *)
(* arithmetic and "within floating-point tolerance" becomes equality.      *)
(***************************************************************************)
EXTENDS Integers, Sequences, FiniteSets, TLC

\* ------------------------------------------------------------------ bounds
\* PWM channels 0..MaxChannel exist.
MaxChannel == 1
\* Test angles are the multiples of 180 / (2 * AngleHalves) degrees ...
AngleHalves == 2
\* ... from AngleOver steps below 0 to AngleOver steps above 180.
AngleOver == 1
\* Raw pulse values 0..MaxRaw.
MaxRaw == 1
\* SPI ports 0..MaxPort exist.
MaxPort == 1
\* SPI buffers hold 0..MaxLen bytes (or words).
MaxLen == 2

\* --------------------------------------------------------------- rationals
RECURSIVE GCD(_, _)
GCD(a, b) == IF b = 0 THEN a ELSE GCD(b, a % b)

Abs(x) == IF x < 0 THEN -x ELSE x

\* n / d in lowest terms with a positive denominator (d # 0).
Rat(n, d) ==
    LET g == GCD(Abs(n), Abs(d))
        s == IF d < 0 THEN -1 ELSE 1
    IN  [n |-> (s * n) \div g, d |-> (s * d) \div g]

RatAdd(x, y) == Rat(x.n * y.d + y.n * x.d, x.d * y.d)
RatSub(x, y) == Rat(x.n * y.d - y.n * x.d, x.d * y.d)
RatMul(x, y) == Rat(x.n * y.n, x.d * y.d)
RatDiv(x, y) == Rat(x.n * y.d, x.d * y.n)
RatLt(x, y) == x.n * y.d < y.n * x.d

\* ------------------------------------------------------- results and calls
\* HalResult<T>: Ok(v) / Err(e); a panic (unwrap on Err) is a third outcome.
Unit == <<>>
Ok(v) == [kind |-> "ok", val |-> v, err |-> "none"]
Err(e) == [kind |-> "err", val |-> Unit, err |-> e]
Panic(e) == [kind |-> "panic", val |-> Unit, err |-> e]

\* Error codes the external layer reports.
ResourceUnavailable == "RESOURCE_UNAVAILABLE"
HalErrors == {"HAL_ERROR"}
\* Outcome the external layer chooses for one call.
HalOutcome == {"ok"} \cup HalErrors
HalRes(e, v) == IF e = "ok" THEN Ok(v) ELSE Err(e)

Call(fn, args, res) == [fn |-> fn, args |-> args, res |-> res]

\* ------------------------------------------------------------ Servo fields
k_max_servo_angle == Rat(180, 1)
k_min_servo_angle == Rat(0, 1)
k_default_max_servo_pwm == Rat(24, 10)
k_default_min_servo_pwm == Rat(6, 10)
Zero == Rat(0, 1)

Channels == 0..MaxChannel
Multipliers == {"Multiplier1x", "Multiplier2x", "Multiplier4x"}
Bounds(max, dmax, center, dmin, min) ==
    <<max, dmax, center, dmin, min>>
ServoBounds ==
    Bounds(k_default_max_servo_pwm, Zero, Zero, Zero, k_default_min_servo_pwm)

\* ------------------------------------------------------------- input sets
TestAngles ==
    {RatMul(Rat(k, 2 * AngleHalves), k_max_servo_angle) :
        k \in (0 - AngleOver)..(2 * AngleHalves + AngleOver)}
TestPositions ==
    {Rat(k, 2 * AngleHalves) :
        k \in (0 - AngleOver)..(2 * AngleHalves + AngleOver)}
TestRaws == 0..MaxRaw
TestSpeeds == {Rat(-1, 1), Rat(1, 2)}
TestBounds == {ServoBounds, Bounds(Rat(2, 1), Zero, Zero, Zero, Rat(1, 1))}
TestRawBounds == {<<MaxRaw, 0, 0, 0, 0>>}

Ports == 0..MaxPort
SpiOptions == [msb_first : BOOLEAN, sample_on_trailing : BOOLEAN, clk_idle_high : BOOLEAN]
\* SpiOptions::default()
DefaultOptions ==
    [msb_first |-> FALSE, sample_on_trailing |-> FALSE, clk_idle_high |-> FALSE]
Lens == 0..MaxLen

VARIABLES
    owner,      \* external layer: channel -> "free" | "other" | "servo"
    cfg,        \* external layer: channel -> configured bounds / multiplier
    pwm,        \* external layer: stored position and raw value of the Servo's PWM
    servo,      \* the live Servo objects' channels (at most one)
    lastSet,    \* history: the operation whose position the PWM now stores
    ret,        \* the last wrapper operation: name, arguments, result
    calls,      \* the external-layer calls that operation issued, in order
    aborted,    \* a panic unwound the caller
    spiObj,     \* port -> "none" | "spi" (a live Spi) | "auto" (a live AutoSpi)
    opts,       \* port -> the opts field of the Spi on that port
    halInit,    \* external layer: the initialized SPI ports
    halAuto,    \* external layer: the port holding the automatic engine, if any
    halOpts,    \* external layer: port -> the options last given for it
    released    \* the automatic engine has been freed at least once

servoVars == <<owner, cfg, pwm, servo, lastSet>>
spiVars == <<spiObj, opts, halInit, halAuto, halOpts, released>>
vars == <<owner, cfg, pwm, servo, lastSet, ret, calls, aborted,
          spiObj, opts, halInit, halAuto, halOpts, released>>

NoCfg == [bounds |-> <<>>, mult |-> <<>>]
FreshPwm == [pos |-> Zero, raw |-> 0]
NoSet == [op |-> "none", args |-> <<>>]
\* The configuration another owner gives its channel.
OtherCfg ==
    [bounds |-> <<Bounds(Rat(2, 1), Zero, Zero, Zero, Rat(1, 1))>>,
     mult |-> <<"Multiplier1x">>]

Init ==
    /\ owner = [c \in Channels |-> "free"]
    /\ cfg = [c \in Channels |-> NoCfg]
    /\ pwm = FreshPwm
    /\ servo = {}
    /\ lastSet = NoSet
    /\ ret = [op |-> "init", args |-> <<>>, res |-> Ok(Unit)]
    /\ calls = <<>>
    /\ aborted = FALSE
    /\ spiObj = [p \in Ports |-> "none"]
    /\ opts = [p \in Ports |-> DefaultOptions]
    /\ halInit = {}
    /\ halAuto = {}
    /\ halOpts = [p \in Ports |-> DefaultOptions]
    /\ released = FALSE

Live == ~aborted /\ servo # {}
Ch == CHOOSE c \in servo : TRUE

\* Records the finished operation; a panic aborts the caller.
Finish(op, args, res, cs) ==
    /\ ret' = [op |-> op, args |-> args, res |-> res]
    /\ calls' = cs
    /\ aborted' = (res.kind = "panic")

ServoDone(op, args, res, cs) == Finish(op, args, res, cs) /\ UNCHANGED spiVars
SpiDone(op, args, res, cs) ==
    Finish(op, args, res, cs) /\ UNCHANGED <<servoVars, spiVars>>

\* ------------------------------------------- external layer (PWM) behaviour
\* PWM::new: acquiring a channel fails when it is already claimed.
PwmNew(channel) ==
    Call("PWM::new", <<channel>>,
         IF owner[channel] = "free" THEN Ok(Unit) ELSE Err(ResourceUnavailable))

\* A mock that stores whatever position / raw value it is given.
PwmStorePosition(value, e) == IF e = "ok" THEN [pwm EXCEPT !.pos = value] ELSE pwm
PwmStoreRaw(value, e) == IF e = "ok" THEN [pwm EXCEPT !.raw = value] ELSE pwm
\* The disable command stops driving the output: a zero raw pulse.
PwmDisable(e) == PwmStoreRaw(0, e)
PwmStoreBounds(c, b, e) ==
    IF e = "ok" THEN [cfg EXCEPT ![c].bounds = <<b>>] ELSE cfg
PwmStoreMult(c, m, e) ==
    IF e = "ok" THEN [cfg EXCEPT ![c].mult = <<m>>] ELSE cfg

\* Another component claims a free channel, or releases the one it holds.
OtherClaim ==
    /\ ~aborted
    /\ \E c \in Channels :
        /\ owner[c] = "free"
        /\ owner' = [owner EXCEPT ![c] = "other"]
        /\ cfg' = [cfg EXCEPT ![c] = OtherCfg]
        /\ ServoDone("other_claim", <<c>>, Ok(Unit), <<>>)
    /\ UNCHANGED <<pwm, servo, lastSet>>

OtherRelease ==
    /\ ~aborted
    /\ \E c \in Channels :
        /\ owner[c] = "other"
        /\ owner' = [owner EXCEPT ![c] = "free"]
        /\ cfg' = [cfg EXCEPT ![c] = NoCfg]
        /\ ServoDone("other_release", <<c>>, Ok(Unit), <<>>)
    /\ UNCHANGED <<pwm, servo, lastSet>>

\* ------------------------------------------------------------------ Servo
\* Servo::new: PWM::new(channel).unwrap(), then two configuration calls whose
\* results are discarded, then the Servo value.
ServoNew ==
    /\ ~aborted
    /\ servo = {}
    /\ \E channel \in Channels, e1 \in HalOutcome, e2 \in HalOutcome :
        LET c0 == PwmNew(channel)
            c1 == Call("set_bounds", ServoBounds, HalRes(e1, Unit))
            c2 == Call("set_period_multiplier", <<"Multiplier4x">>, HalRes(e2, Unit))
        IN  IF c0.res.kind # "ok"
            THEN /\ ServoDone("new", <<channel>>, Panic(c0.res.err), <<c0>>)
                 /\ UNCHANGED <<owner, cfg, pwm, servo, lastSet>>
            ELSE /\ owner' = [owner EXCEPT ![channel] = "servo"]
                 /\ cfg' = [cfg EXCEPT ![channel] =
                        [bounds |-> IF e1 = "ok" THEN <<ServoBounds>> ELSE <<>>,
                         mult |-> IF e2 = "ok" THEN <<"Multiplier4x">> ELSE <<>>]]
                 /\ pwm' = FreshPwm
                 /\ lastSet' = NoSet
                 /\ servo' = {channel}
                 /\ ServoDone("new", <<channel>>, Ok(Unit), <<c0, c1, c2>>)

\* Dropping the Servo drops its PWM, which returns the channel.
ServoDrop ==
    /\ Live
    /\ owner' = [owner EXCEPT ![Ch] = "free"]
    /\ cfg' = [cfg EXCEPT ![Ch] = NoCfg]
    /\ servo' = {}
    /\ pwm' = FreshPwm
    /\ lastSet' = NoSet
    /\ ServoDone("drop", <<>>, Ok(Unit), <<>>)

Set ==
    /\ Live
    /\ \E value \in TestPositions, e \in HalOutcome :
        LET c == Call("set_position", <<value>>, HalRes(e, Unit))
        IN  /\ pwm' = PwmStorePosition(value, e)
            /\ lastSet' = IF e = "ok" THEN [op |-> "set", args |-> <<value>>] ELSE lastSet
            /\ ServoDone("set", <<value>>, c.res, <<c>>)
    /\ UNCHANGED <<owner, cfg, servo>>

Get ==
    /\ Live
    /\ \E e \in HalOutcome :
        LET c == Call("position", <<>>, HalRes(e, pwm.pos))
        IN  ServoDone("get", <<>>, c.res, <<c>>)
    /\ UNCHANGED <<owner, cfg, pwm, servo, lastSet>>

\* Bug variant of SetOffline: a non-zero raw value is forwarded.
SetOfflineNonZero ==
    /\ Live
    /\ \E e \in HalOutcome :
        LET c == Call("set_raw", <<MaxRaw>>, HalRes(e, Unit))
        IN  /\ pwm' = PwmStoreRaw(MaxRaw, e)
            /\ UNCHANGED lastSet
            /\ ServoDone("set_offline", <<>>, c.res, <<c>>)
    /\ UNCHANGED <<owner, cfg, servo>>

SetOffline ==
    /\ Live
    /\ \E e \in HalOutcome :
        LET c == Call("set_raw", <<0>>, HalRes(e, Unit))
        IN  /\ pwm' = PwmStoreRaw(0, e)
            /\ UNCHANGED lastSet
            /\ ServoDone("set_offline", <<>>, c.res, <<c>>)
    /\ UNCHANGED <<owner, cfg, servo>>

get_servo_angle_range == RatSub(k_max_servo_angle, k_min_servo_angle)

\* Bug variant of ClampAngle: the upper limit is not applied.
ClampAngleLowerOnly(new_angle_degrees) ==
    IF RatLt(new_angle_degrees, k_min_servo_angle) THEN k_min_servo_angle
    ELSE new_angle_degrees

\* The clamp of set_angle.
ClampAngle(new_angle_degrees) ==
    IF RatLt(new_angle_degrees, k_min_servo_angle) THEN k_min_servo_angle
    ELSE IF RatLt(k_max_servo_angle, new_angle_degrees) THEN k_max_servo_angle
    ELSE new_angle_degrees

AngleToPosition(angle) ==
    RatDiv(RatSub(angle, k_min_servo_angle), get_servo_angle_range)

\* Bug variant of PositionToAngle: the position is not scaled by the range.
PositionToAngleUnscaled(position) == RatAdd(position, k_min_servo_angle)

PositionToAngle(position) ==
    RatAdd(RatMul(position, get_servo_angle_range), k_min_servo_angle)

\* set_angle: clamp, convert, set_position(..).unwrap(), Ok(()).
SetAngle ==
    /\ Live
    /\ \E new_angle_degrees \in TestAngles, e \in HalOutcome :
        LET value == AngleToPosition(ClampAngle(new_angle_degrees))
            c == Call("set_position", <<value>>, HalRes(e, Unit))
        IN  /\ pwm' = PwmStorePosition(value, e)
            /\ lastSet' = IF e = "ok"
                          THEN [op |-> "set_angle", args |-> <<new_angle_degrees>>]
                          ELSE lastSet
            /\ ServoDone("set_angle", <<new_angle_degrees>>,
                      IF e = "ok" THEN Ok(Unit) ELSE Panic(e), <<c>>)
    /\ UNCHANGED <<owner, cfg, servo>>

\* angle: self.get()? * range + min.
Angle ==
    /\ Live
    /\ \E e \in HalOutcome :
        LET c == Call("position", <<>>, HalRes(e, pwm.pos))
        IN  ServoDone("angle", <<>>,
                   IF e = "ok" THEN Ok(PositionToAngle(c.res.val)) ELSE c.res,
                   <<c>>)
    /\ UNCHANGED <<owner, cfg, pwm, servo, lastSet>>

SetRaw ==
    /\ Live
    /\ \E value \in TestRaws, e \in HalOutcome :
        LET c == Call("set_raw", <<value>>, HalRes(e, Unit))
        IN  /\ pwm' = PwmStoreRaw(value, e)
            /\ UNCHANGED lastSet
            /\ ServoDone("set_raw", <<value>>, c.res, <<c>>)
    /\ UNCHANGED <<owner, cfg, servo>>

Raw ==
    /\ Live
    /\ \E e \in HalOutcome :
        LET c == Call("raw", <<>>, HalRes(e, pwm.raw))
        IN  ServoDone("raw", <<>>, c.res, <<c>>)
    /\ UNCHANGED <<owner, cfg, pwm, servo, lastSet>>

SetSpeed ==
    /\ Live
    /\ \E speed \in TestSpeeds, e \in HalOutcome :
        LET c == Call("set_speed", <<speed>>, HalRes(e, Unit))
        IN  ServoDone("set_speed", <<speed>>, c.res, <<c>>)
    /\ UNCHANGED <<owner, cfg, pwm, servo, lastSet>>

\* speed: forwards to self.pwm.raw().
Speed ==
    /\ Live
    /\ \E e \in HalOutcome :
        LET c == Call("raw", <<>>, HalRes(e, pwm.raw))
        IN  ServoDone("speed", <<>>, c.res, <<c>>)
    /\ UNCHANGED <<owner, cfg, pwm, servo, lastSet>>

SetDisabled ==
    /\ Live
    /\ \E e \in HalOutcome :
        LET c == Call("set_disabled", <<>>, HalRes(e, Unit))
        IN  /\ pwm' = PwmDisable(e)
            /\ UNCHANGED lastSet
            /\ ServoDone("set_disabled", <<>>, c.res, <<c>>)
    /\ UNCHANGED <<owner, cfg, servo>>

\* set_period_multiplier(mult): calls self.pwm.set_period_multiplier() with no
\* argument; mult is not handed on, so no multiplier reaches the external layer.
SetPeriodMultiplier ==
    /\ Live
    /\ \E mult \in Multipliers, e \in HalOutcome :
        LET c == Call("set_period_multiplier", <<>>, HalRes(e, Unit))
        IN  ServoDone("set_period_multiplier", <<mult>>, c.res, <<c>>)
    /\ UNCHANGED <<owner, cfg, pwm, servo, lastSet>>

SetZeroLatch ==
    /\ Live
    /\ \E e \in HalOutcome :
        LET c == Call("set_zero_latch", <<>>, HalRes(e, Unit))
        IN  ServoDone("set_zero_latch", <<>>, c.res, <<c>>)
    /\ UNCHANGED <<owner, cfg, pwm, servo, lastSet>>

\* enable_deadband_elimination(b): calls the external operation without b.
EnableDeadbandElimination ==
    /\ Live
    /\ \E eliminate_deadband \in BOOLEAN, e \in HalOutcome :
        LET c == Call("enable_deadband_elimination", <<>>, HalRes(e, Unit))
        IN  ServoDone("enable_deadband_elimination", <<eliminate_deadband>>, c.res, <<c>>)
    /\ UNCHANGED <<owner, cfg, pwm, servo, lastSet>>

SetBounds ==
    /\ Live
    /\ \E b \in TestBounds, e \in HalOutcome :
        LET c == Call("set_bounds", b, HalRes(e, Unit))
        IN  /\ cfg' = PwmStoreBounds(Ch, b, e)
            /\ ServoDone("set_bounds", b, c.res, <<c>>)
    /\ UNCHANGED <<owner, pwm, servo, lastSet>>

SetRawBounds ==
    /\ Live
    /\ \E b \in TestRawBounds, e \in HalOutcome :
        LET c == Call("set_raw_bounds", b, HalRes(e, Unit))
        IN  ServoDone("set_raw_bounds", b, c.res, <<c>>)
    /\ UNCHANGED <<owner, cfg, pwm, servo, lastSet>>

\* raw_bounds: the caller's five out-references are handed on as they are.
RawBounds ==
    /\ Live
    /\ \E e \in HalOutcome :
        LET outs == <<"max", "deadband_max", "center", "deadband_min", "min">>
            c == Call("raw_bounds", outs, HalRes(e, Unit))
        IN  ServoDone("raw_bounds", outs, c.res, <<c>>)
    /\ UNCHANGED <<owner, cfg, pwm, servo, lastSet>>

\* -------------------------------------------- external layer (SPI) behaviour
\* A status-returning external call behind hal_call!: Ok or Err(status).
HalCall(fn, args, e, v) == Call(fn, args, HalRes(e, v))
\* A byte-count-returning external call: the raw return value.
RvCall(fn, args, rv) == Call(fn, args, [kind |-> "rv", val |-> rv, err |-> "none"])

\* Port acquisition fails when the port is already claimed.
HAL_InitializeSPI(port, e) ==
    HalCall("HAL_InitializeSPI", <<port>>,
            IF port \in halInit THEN ResourceUnavailable ELSE e, Unit)

\* Only a single engine is available: allocation errors while one is allocated.
HAL_InitSPIAuto(port, buffer_size, e) ==
    HalCall("HAL_InitSPIAuto", <<port, buffer_size>>,
            IF halAuto # {} THEN ResourceUnavailable ELSE e, Unit)

HAL_FreeSPIAuto(port, e) == HalCall("HAL_FreeSPIAuto", <<port>>, e, Unit)

\* HAL_CloseSPI releases the port and ensures the auto SPI on it is freed.
HAL_CloseSPI(port) == Call("HAL_CloseSPI", <<port>>, Ok(Unit))
CloseEffect(port) ==
    /\ halInit' = halInit \ {port}
    /\ halAuto' = halAuto \ {port}
    /\ released' = (released \/ halAuto = {port})
    /\ halOpts' = [halOpts EXCEPT ![port] = DefaultOptions]
    /\ opts' = [opts EXCEPT ![port] = DefaultOptions]

\* Bug variant of io_result: a zero byte count is taken for a failure.
io_resultZeroIsError(rv) == IF rv <= 0 THEN Err("OS_ERROR") ELSE Ok(rv)

\* Convert the return value of HAL SPI read/write/transaction to an io::Result.
io_result(rv) == IF rv < 0 THEN Err("OS_ERROR") ELSE Ok(rv)

\* -------------------------------------------------------------------- Spi
SpiNew ==
    /\ ~aborted
    /\ \E port \in Ports, e \in HalOutcome :
        LET c == HAL_InitializeSPI(port, e)
        IN  /\ IF c.res.kind = "ok"
               THEN /\ spiObj' = [spiObj EXCEPT ![port] = "spi"]
                    /\ opts' = [opts EXCEPT ![port] = DefaultOptions]
                    /\ halInit' = halInit \cup {port}
                    /\ halOpts' = [halOpts EXCEPT ![port] = DefaultOptions]
               ELSE UNCHANGED <<spiObj, opts, halInit, halOpts>>
            /\ UNCHANGED <<halAuto, released, servoVars>>
            /\ Finish("Spi::new", <<port>>, c.res, <<c>>)

SpiDrop ==
    /\ ~aborted
    /\ \E port \in Ports :
        /\ spiObj[port] = "spi"
        /\ spiObj' = [spiObj EXCEPT ![port] = "none"]
        /\ CloseEffect(port)
        /\ UNCHANGED servoVars
        /\ Finish("Spi::drop", <<port>>, Ok(Unit), <<HAL_CloseSPI(port)>>)

SetClockRate ==
    /\ ~aborted
    /\ \E port \in Ports, hz \in Lens :
        /\ spiObj[port] = "spi"
        /\ SpiDone("set_clock_rate", <<port, hz>>, Ok(Unit),
                   <<Call("HAL_SetSPISpeed", <<port, hz>>, Ok(Unit))>>)

\* set_opts hands the options to the external layer.
set_opts(port, o) ==
    /\ halOpts' = [halOpts EXCEPT ![port] = o]
    /\ UNCHANGED <<spiObj, halInit, halAuto, released, servoVars>>

SetOpts ==
    /\ ~aborted
    /\ \E port \in Ports, o \in SpiOptions :
        /\ spiObj[port] = "spi"
        /\ set_opts(port, o)
        /\ UNCHANGED opts
        /\ Finish("set_opts", <<port, o>>, Ok(Unit), <<>>)

\* The deprecated setters: update one field of self.opts, then set_opts(self.opts).
Setter(port, name, field, value) ==
    /\ spiObj[port] = "spi"
    /\ opts' = [opts EXCEPT ![port][field] = value]
    /\ set_opts(port, opts'[port])
    /\ Finish(name, <<port>>, Ok(Unit), <<>>)

SetMsbFirst ==
    /\ ~aborted
    /\ \E port \in Ports : Setter(port, "set_msb_first", "msb_first", TRUE)

SetLsbFirst ==
    /\ ~aborted
    /\ \E port \in Ports : Setter(port, "set_lsb_first", "msb_first", FALSE)

SetSampleDataOnLeadingEdge ==
    /\ ~aborted
    /\ \E port \in Ports :
        Setter(port, "set_sample_data_on_leading_edge", "sample_on_trailing", FALSE)

SetSampleDataOnTrailingEdge ==
    /\ ~aborted
    /\ \E port \in Ports :
        Setter(port, "set_sample_data_on_trailing_edge", "sample_on_trailing", TRUE)

SetClockActiveLow ==
    /\ ~aborted
    /\ \E port \in Ports : Setter(port, "set_clock_active_low", "clk_idle_high", TRUE)

SetClockActiveHigh ==
    /\ ~aborted
    /\ \E port \in Ports : Setter(port, "set_clock_active_high", "clk_idle_high", FALSE)

\* A Spi / AutoSpi method that is one hal_call! whose result is returned.
Forward(port, kind, op, fn, e) ==
    /\ spiObj[port] = kind
    /\ LET c == HalCall(fn, <<port>>, e, Unit)
       IN  SpiDone(op, <<port>>, c.res, <<c>>)

SetChipSelectActiveHigh ==
    /\ ~aborted
    /\ \E port \in Ports, e \in HalOutcome :
        Forward(port, "spi", "set_chip_select_active_high",
                "HAL_SetSPIChipSelectActiveHigh", e)

SetChipSelectActiveLow ==
    /\ ~aborted
    /\ \E port \in Ports, e \in HalOutcome :
        Forward(port, "spi", "set_chip_select_active_low",
                "HAL_SetSPIChipSelectActiveLow", e)

\* transaction_into: one HAL_TransactionSPI of to_send.len() bytes.
transaction_into(port, size, rv) ==
    [call |-> RvCall("HAL_TransactionSPI", <<port, size>>, rv), res |-> io_result(rv)]

Write ==
    /\ ~aborted
    /\ \E port \in Ports, len \in Lens :
        /\ spiObj[port] = "spi"
        /\ \E rv \in -1..len :
            SpiDone("write", <<port, len>>, io_result(rv),
                    <<RvCall("HAL_WriteSPI", <<port, len>>, rv)>>)

Read ==
    /\ ~aborted
    /\ \E port \in Ports, initiate \in BOOLEAN, len \in Lens :
        /\ spiObj[port] = "spi"
        /\ \E rv \in -1..len :
            IF initiate
            THEN LET t == transaction_into(port, len, rv)
                 IN  SpiDone("read", <<port, initiate, len>>, t.res, <<t.call>>)
            ELSE SpiDone("read", <<port, initiate, len>>, io_result(rv),
                         <<RvCall("HAL_ReadSPI", <<port, len>>, rv)>>)

\* transaction: the received bytes, read of them (the result carries the count).
Transaction ==
    /\ ~aborted
    /\ \E port \in Ports, len \in Lens :
        /\ spiObj[port] = "spi"
        /\ \E rv \in -1..len :
            LET t == transaction_into(port, len, rv)
            IN  SpiDone("transaction", <<port, len>>,
                        IF t.res.kind = "ok" THEN Ok(t.res.val) ELSE t.res,
                        <<t.call>>)

\* ---------------------------------------------------------------- AutoSpi
\* Bug variant of AutoSpiNew: the result of HAL_InitSPIAuto is not looked at.
AutoSpiNewUnchecked ==
    /\ ~aborted
    /\ \E port \in Ports, e \in HalOutcome :
        /\ spiObj[port] = "spi"
        /\ LET c == HAL_InitSPIAuto(port, MaxLen, e)
           IN  /\ spiObj' = [spiObj EXCEPT ![port] = "auto"]
               /\ halAuto' = IF c.res.kind = "ok" THEN {port} ELSE halAuto
               /\ UNCHANGED <<opts, halInit, halOpts, released, servoVars>>
               /\ Finish("AutoSpi::new", <<port>>, Ok(Unit), <<c>>)

\* AutoSpi::new(spi, buffer_size): on an error the Spi moved in is dropped.
AutoSpiNew ==
    /\ ~aborted
    /\ \E port \in Ports, e \in HalOutcome :
        /\ spiObj[port] = "spi"
        /\ LET c == HAL_InitSPIAuto(port, MaxLen, e)
           IN  IF c.res.kind = "ok"
               THEN /\ spiObj' = [spiObj EXCEPT ![port] = "auto"]
                    /\ halAuto' = {port}
                    /\ UNCHANGED <<opts, halInit, halOpts, released, servoVars>>
                    /\ Finish("AutoSpi::new", <<port>>, c.res, <<c>>)
               ELSE /\ spiObj' = [spiObj EXCEPT ![port] = "none"]
                    /\ CloseEffect(port)
                    /\ UNCHANGED servoVars
                    /\ Finish("AutoSpi::new", <<port>>, c.res, <<c, HAL_CloseSPI(port)>>)

\* stop: let _ = hal_call!(HAL_FreeSPIAuto(..)); the Spi is handed back.
Stop ==
    /\ ~aborted
    /\ \E port \in Ports, e \in HalOutcome :
        /\ spiObj[port] = "auto"
        /\ LET c == HAL_FreeSPIAuto(port, e)
           IN  /\ spiObj' = [spiObj EXCEPT ![port] = "spi"]
               /\ halAuto' = IF c.res.kind = "ok" THEN halAuto \ {port} ELSE halAuto
               /\ released' = (released \/ c.res.kind = "ok")
               /\ UNCHANGED <<opts, halInit, halOpts, servoVars>>
               /\ Finish("stop", <<port>>, Ok(Unit), <<c>>)

\* Dropping an AutoSpi drops the Spi inside it.
AutoSpiDrop ==
    /\ ~aborted
    /\ \E port \in Ports :
        /\ spiObj[port] = "auto"
        /\ spiObj' = [spiObj EXCEPT ![port] = "none"]
        /\ CloseEffect(port)
        /\ UNCHANGED servoVars
        /\ Finish("AutoSpi::drop", <<port>>, Ok(Unit), <<HAL_CloseSPI(port)>>)

SetTransmitData ==
    /\ ~aborted
    /\ \E port \in Ports, len \in Lens, zero_size \in Lens, e \in HalOutcome :
        /\ spiObj[port] = "auto"
        /\ LET c == HalCall("HAL_SetSPIAutoTransmitData", <<port, len, zero_size>>, e, Unit)
           IN  SpiDone("set_transmit_data", <<port, len, zero_size>>, c.res, <<c>>)

StartRate ==
    /\ ~aborted
    /\ \E port \in Ports, e \in HalOutcome :
        Forward(port, "auto", "start_rate", "HAL_StartSPIAutoRate", e)

Pause ==
    /\ ~aborted
    /\ \E port \in Ports, e \in HalOutcome :
        Forward(port, "auto", "pause", "HAL_StopSPIAuto", e)

ForceRead ==
    /\ ~aborted
    /\ \E port \in Ports, e \in HalOutcome :
        Forward(port, "auto", "force_read", "HAL_ForceSPIAutoRead", e)

ReadReceivedData ==
    /\ ~aborted
    /\ \E port \in Ports, len \in Lens, e \in HalOutcome :
        /\ spiObj[port] = "auto"
        /\ \E n \in 0..len :
            LET c == HalCall("HAL_ReadSPIAutoReceivedData", <<port, len>>, e, n)
            IN  SpiDone("read_received_data", <<port, len>>, c.res, <<c>>)

\* dropped_count: hal_call!(..).unwrap(), a bare i32.
DroppedCount ==
    /\ ~aborted
    /\ \E port \in Ports, n \in Lens, e \in HalOutcome :
        /\ spiObj[port] = "auto"
        /\ LET c == HalCall("HAL_GetSPIAutoDroppedCount", <<port>>, e, n)
           IN  SpiDone("dropped_count", <<port>>,
                       IF c.res.kind = "ok" THEN c.res ELSE Panic(c.res.err), <<c>>)

\* One Servo's life: construction, the runtime operations, destruction.
Next ==
    \/ ServoNew \/ ServoDrop
    \/ Set \/ Get \/ SetOffline \/ SetAngle \/ Angle
    \/ SetRaw \/ Raw \/ SetSpeed \/ Speed \/ SetDisabled
    \/ SetPeriodMultiplier \/ SetZeroLatch \/ EnableDeadbandElimination
    \/ SetBounds \/ SetRawBounds \/ RawBounds

Spec == Init /\ [][Next]_vars

\* Construction and configuration among other owners of the PWM channels.
NextLifecycle ==
    \/ OtherClaim \/ OtherRelease
    \/ ServoNew \/ ServoDrop
    \/ SetBounds \/ SetPeriodMultiplier

SpecLifecycle == Init /\ [][NextLifecycle]_vars

NextSpi ==
    \/ SpiNew \/ SpiDrop \/ SetClockRate
    \/ SetChipSelectActiveHigh \/ SetChipSelectActiveLow
    \/ Write \/ Read \/ Transaction
    \/ AutoSpiNew \/ Stop \/ AutoSpiDrop
    \/ SetTransmitData \/ StartRate \/ Pause \/ ForceRead
    \/ ReadReceivedData \/ DroppedCount

SpecSpi == Init /\ [][NextSpi]_vars

NextOpts ==
    \/ SpiNew \/ SpiDrop \/ SetOpts
    \/ SetMsbFirst \/ SetLsbFirst
    \/ SetSampleDataOnLeadingEdge \/ SetSampleDataOnTrailingEdge
    \/ SetClockActiveLow \/ SetClockActiveHigh

SpecOpts == Init /\ [][NextOpts]_vars

\* ================================================================== claims
Failed(i) == calls[i].res.kind = "err"
Deg(k) == Rat(k, 1)

\* C1: set_angle(a) forwards exactly one set_position whose value is
\* (c - 0) / (180 - 0) for c = a clamped to [0, 180]; so a < 0 commands what
\* set_angle(0) commands (0), a > 180 what set_angle(180) commands (1), and
\* 0, 90, 180 degrees command 0, 1/2 and 1.
C1_SetAngleForwardsClampedPosition ==
    ret.op = "set_angle" =>
        LET a == ret.args[1]
            c == IF a.n < 0 THEN Deg(0)
                 ELSE IF a.n > 180 * a.d THEN Deg(180)
                 ELSE a
            value == calls[1].args[1]
        IN  /\ Len(calls) = 1
            /\ calls[1].fn = "set_position"
            /\ Len(calls[1].args) = 1
            /\ value.n * (180 * c.d) = c.n * value.d
            /\ (a.n < 0 => value = Deg(0))
            /\ (a.n > 180 * a.d => value = Deg(1))
            /\ (a = Deg(0) => value = Deg(0))
            /\ (a = Deg(90) => value = [n |-> 1, d |-> 2])
            /\ (a = Deg(180) => value = Deg(1))

\* An angle above 180 was commanded and the external layer accepted the call.
C1_Witness ==
    /\ ret.op = "set_angle"
    /\ ret.args[1].n > 180 * ret.args[1].d
    /\ ret.res.kind = "ok"

\* C2: with an external layer that stores the position it is given, angle()
\* after set_angle(a), for a in [0, 180], returns a.
C2_AngleRoundTrip ==
    (/\ ret.op = "angle"
     /\ ret.res.kind = "ok"
     /\ lastSet.op = "set_angle"
     /\ lastSet.args[1].n >= 0
     /\ lastSet.args[1].n <= 180 * lastSet.args[1].d)
        => ret.res.val = lastSet.args[1]

\* angle() read back a position stored by set_angle(135).
C2_Witness ==
    /\ ret.op = "angle"
    /\ ret.res.kind = "ok"
    /\ lastSet.op = "set_angle"
    /\ lastSet.args[1] = Deg(135)
    /\ ret.res.val = Deg(135)

\* C3: constructing a Servo on a claimed channel returns the external layer's
\* resource-unavailable error as an error value, issues no configuration call
\* and leaves the owner's claim and configuration as they were.
C3_ClaimedChannelReturnsError ==
    (/\ ret.op = "new"
     /\ calls[1].res = Err(ResourceUnavailable))
        => /\ ret.res = Err(ResourceUnavailable)
           /\ Len(calls) = 1
           /\ servo = {}
           /\ owner[ret.args[1]] = "other"
           /\ cfg[ret.args[1]] = OtherCfg

\* C4: construction yields a Servo only when channel acquisition, set_bounds(2.4,
\* 0, 0, 0, 0.6) and the x4 period multiplier call all succeeded, in that order;
\* a failing configuration call makes construction return that error.
C4_ConstructionRequiresConfiguration ==
    ret.op = "new" =>
        /\ ret.res.kind = "ok" =>
            /\ Len(calls) = 3
            /\ calls[1] = Call("PWM::new", ret.args, Ok(Unit))
            /\ calls[2] = Call("set_bounds",
                               <<Rat(12, 5), Deg(0), Deg(0), Deg(0), Rat(3, 5)>>,
                               Ok(Unit))
            /\ calls[3] = Call("set_period_multiplier", <<"Multiplier4x">>, Ok(Unit))
        /\ \A i \in 2..Len(calls) : Failed(i) => ret.res = calls[i].res

RuntimeOps ==
    {"set", "get", "set_angle", "angle", "set_raw", "raw", "set_offline", "set_disabled"}

\* C5: every runtime get/set operation returns the external layer's outcome:
\* the same error when the external call fails, success only when it succeeds,
\* and it never aborts.
C5_RuntimeOpsPropagate ==
    ret.op \in RuntimeOps =>
        /\ Len(calls) = 1
        /\ ret.res.kind # "panic"
        /\ (Failed(1) => ret.res = calls[1].res)
        /\ (calls[1].res.kind = "ok" => ret.res.kind = "ok")

\* C6: a successful set_offline or set_disabled leaves a zero raw command with
\* the external layer, whatever position was commanded before.
C6_OfflineIsZeroRaw ==
    (ret.op \in {"set_offline", "set_disabled"} /\ ret.res.kind = "ok") =>
        /\ Len(calls) = 1
        /\ calls[1].res.kind = "ok"
        /\ (ret.op = "set_offline" => calls[1].fn = "set_raw" /\ calls[1].args = <<0>>)
        /\ (ret.op = "set_disabled" => calls[1].fn = "set_disabled")
        /\ pwm.raw = 0

\* set_offline succeeded while a non-zero position was stored.
C6_Witness ==
    /\ ret.op = "set_offline"
    /\ ret.res.kind = "ok"
    /\ pwm.pos # Deg(0)
    /\ lastSet.op = "set_angle"

PassThroughOps ==
    {"set_raw", "raw", "set_speed", "speed", "set_bounds", "set_raw_bounds",
     "raw_bounds", "set_period_multiplier", "enable_deadband_elimination",
     "set_zero_latch"}

\* C7: each pass-through accessor invokes the external operation of the same
\* name with exactly the caller's arguments and returns its result unchanged.
C7_PassThroughForwards ==
    ret.op \in PassThroughOps =>
        /\ Len(calls) = 1
        /\ calls[1].fn = ret.op
        /\ calls[1].args = ret.args
        /\ ret.res = calls[1].res

HalForwardOps ==
    {"Spi::new", "set_chip_select_active_high", "set_chip_select_active_low",
     "AutoSpi::new", "set_transmit_data", "start_rate", "pause", "force_read",
     "read_received_data"}
IoOps == {"write", "read", "transaction"}

\* The operation returned its first external call's result, called it once,
\* and did not abort.
Surfaced ==
    /\ Len(calls) >= 1
    /\ ret.res = calls[1].res
    /\ ret.res.kind # "panic"
    /\ \A i \in 2..Len(calls) : calls[i].fn # calls[1].fn

\* A bus read/write/transaction is an error exactly when the external return
\* value is negative, and otherwise that value as the byte count.
IoSurfaced ==
    ret.op \in IoOps =>
        /\ Len(calls) = 1
        /\ (ret.res.kind = "err") = (calls[1].res.val < 0)
        /\ (calls[1].res.val >= 0 =>
                ret.res.kind = "ok" /\ ret.res.val = calls[1].res.val)

C9_SingleAutoEngine ==
    /\ Cardinality({p \in Ports : spiObj[p] = "auto"}) <= 1
    /\ Cardinality(halAuto) <= 1
    /\ \A p \in Ports : spiObj[p] = "auto" => halAuto = {p}
    /\ (ret.op = "AutoSpi::new" /\ calls[1].res = Err(ResourceUnavailable)) =>
            /\ ret.res = Err(ResourceUnavailable)
            /\ spiObj[ret.args[1]] # "auto"
    /\ (ret.op = "AutoSpi::new" /\ ret.res.kind = "ok") =>
            /\ calls[1].res.kind = "ok"
            /\ halAuto = {ret.args[1]}
    /\ (ret.op = "AutoSpi::drop" => halAuto = {})
    /\ (ret.op = "stop" /\ calls[1].res.kind = "ok" => halAuto = {})
    /\ \A p \in halAuto : spiObj[p] # "none"

\* An AutoSpi::new succeeded after the engine had been freed, with a second
\* Spi alive.
C9_Witness ==
    /\ released
    /\ ret.op = "AutoSpi::new"
    /\ ret.res.kind = "ok"
    /\ \E p \in Ports : spiObj[p] = "spi"

\* C10: the options last sent to the external layer for a port are the options
\* recorded in the Spi on it.
C10_OptionsInSync ==
    \A p \in Ports : spiObj[p] = "spi" => halOpts[p] = opts[p]
====
